---- MODULE Spec2Model ----
(***************************************************************************)
(* foo-lang: tokenizer (src/src/lex.rs), recursive-descent parser          *)
(* (src/src/ast.rs) and tree-walking evaluator (src/src/interp.rs).        *)
(*                                                                         *)
(* Three specifications share this module:                                 *)
(*   SpecLex    TokenStream::next over bounded source texts                *)
(*   SpecParse  ItemStream::next over bounded token sequences              *)
(*   Spec       Program::from_items and Program::execute over bounded      *)
(*              item sequences, as a small-step machine whose stack holds  *)
(*              one Context per active call                                *)
(***************************************************************************)
EXTENDS Integers, Sequences, FiniteSets, TLC

VARIABLES
    \* ---- evaluator (interp.rs)
    items,          \* the items the parser yields for the source text
    consumed,       \* how many of them Program::from_items has pulled
    begin_body,     \* Program.begin_body: None or Some(statement list)
    functions,      \* GlobalContext.functions: name -> Function
    phase,          \* "parsed", "built", "executing", "finished", "panicked"
    stack,          \* the active Contexts, entry block's first
    panic,          \* the panic message that ended the run, "" if none
    profile,        \* "any" until an overflowing add has wrapped, then "release"
    \* ---- tokenizer (lex.rs)
    src,            \* TokenStream.src, as a sequence of bytes
    idx,            \* TokenStream.idx, a byte offset (0-based)
    emitted,        \* the tokens yielded so far, each with the bytes it spans
    lex_state,      \* "lexing", "eof", "panicked"
    \* ---- parser (ast.rs)
    tokens,         \* ItemStream.tokens: the tokens not yet consumed
    parsed,         \* the items yielded so far
    parse_state     \* "parsing", "end", "panicked"

evalVars == <<items, consumed, begin_body, functions, phase, stack, panic, profile>>
lexVars == <<src, idx, emitted, lex_state>>
parseVars == <<tokens, parsed, parse_state>>
vars == <<evalVars, lexVars, parseVars>>

(***************************************************************************)
(* Bounds of the model                                                     *)
(***************************************************************************)
\* statements in the entry block
MaxStmts == 2
\* Contexts alive at once; one more call exhausts the call stack
MaxDepth == 4

(***************************************************************************)
(* Values: Value::Int(u32), kept at full width as two 16-bit halves        *)
(***************************************************************************)
Half == 2^16

U32(n) == [hi |-> n \div Half, lo |-> n % Half]

U32Max == [hi |-> Half - 1, lo |-> Half - 1]

\* the mathematical sum l + r does not fit in 32 bits
Overflows(l, r) == l.hi + r.hi + ((l.lo + r.lo) \div Half) >= Half

\* (l + r) mod 2^32
WrappingAdd(l, r) ==
    [hi |-> (l.hi + r.hi + ((l.lo + r.lo) \div Half)) % Half,
     lo |-> (l.lo + r.lo) % Half]

None == <<>>
Some(v) == <<v>>

(***************************************************************************)
(* The tree (ast.rs)                                                       *)
(***************************************************************************)
IntLit(v) == [tag |-> "IntLit", value |-> v]
VarRef(n) == [tag |-> "VarRef", variable |-> n]
Add(l, r) == [tag |-> "Add", lhs |-> l, rhs |-> r]
FuncCall(f, args) == [tag |-> "FuncCall", func_name |-> f, args |-> args]

VarDeclaration(n, e) == [tag |-> "VarDeclaration", variable |-> n, value |-> e]
Assignment(n, e) == [tag |-> "Assignment", variable |-> n, value |-> e]
Return(e) == [tag |-> "Return", value |-> e]

EntryBlock(body) == [tag |-> "EntryBlock", body |-> body]
FuncDef(name, arg_names, body) ==
    [tag |-> "FuncDef", name |-> name, arg_names |-> arg_names, body |-> body]

(***************************************************************************)
(* Evaluator (interp.rs)                                                   *)
(***************************************************************************)
\* The panic messages of interp.rs (names and values left out), and the two
\* aborts of the Rust runtime the evaluator can run into.
MsgMultipleBegin == "Multiple begin blocks not allowed"
MsgFuncDefined == "func already defined"
MsgNoBegin == "called Option::unwrap() on a None value"
MsgNoVariable == "No variable"
MsgRedeclaration == "Redeclaration of variable"
MsgNotDefined == "Variable is not defined"
MsgAlreadyReturned == "function already returned a value"
MsgNoReturn == "Function did not return a value"
MsgNoFunc == "no func is defined"
MsgArity == "assertion failed: self.arg_names.len() == args.len()"
MsgReturnInBegin == "Can't return from begin block"
MsgAddOverflow == "attempt to add with overflow"
MsgStackOverflow == "stack overflow"

\* The failure of the spec's taxonomy that a panic message stands for.
ErrorKind(msg) ==
    CASE msg \in {MsgMultipleBegin, MsgFuncDefined, MsgNoBegin} -> "ProgramError"
      [] msg = MsgNoVariable -> "UndefinedVariable"
      [] msg = MsgRedeclaration -> "Redeclaration"
      [] msg = MsgNotDefined -> "AssignToUndeclared"
      [] msg = MsgAlreadyReturned -> "DoubleReturn"
      [] msg = MsgNoReturn -> "MissingReturn"
      [] msg = MsgNoFunc -> "UndefinedFunction"
      [] msg = MsgArity -> "ArityMismatch"
      [] msg = MsgReturnInBegin -> "ReturnOutsideFunction"
      [] msg = MsgAddOverflow -> "AddOverflow"
      [] msg = MsgStackOverflow -> "StackExhausted"
      [] OTHER -> "None"

\* Function::new
Function(arg_names, body) == [arg_names |-> arg_names, body |-> body]

\* HashMap::new()
EmptyMap == [n \in {} |-> None]

\* Context::new, with the position of the loop that runs the Context's body:
\* pc is the statement the loop is at, ctrl what the statement is doing, kont
\* the reduce_expr calls that wait for a sub-expression's value.
ContextNew(func, body) ==
    [func |-> func, vars |-> EmptyMap, func_ret |-> None,
     body |-> body, pc |-> 1, ctrl |-> [mode |-> "stmt"], kont |-> <<>>]

(***************************************************************************)
(* Faulty variants of the definitions below. Each plants the fault that one *)
(* of the properties is there to exclude; none is part of the model.        *)
(***************************************************************************)
\* a lookup that falls back on the scopes of the callers, newest first
get_var_of_callers(ctx, varname) ==
    IF varname \in DOMAIN ctx.vars THEN Some(ctx.vars[varname])
    ELSE LET holders == { i \in 1..Len(stack) : varname \in DOMAIN stack[i].vars } IN
         IF holders = {} THEN None
         ELSE Some(stack[CHOOSE i \in holders : \A j \in holders : j <= i].vars[varname])

\* an insert that keeps the value of a key the map already holds
create_var_keeps_first(map, varname, val) == map @@ (varname :> val)

\* an insert into the function table without the assert
add_func_unchecked(fns, func_name, func) ==
    [panic |-> "", functions |-> (func_name :> func) @@ fns]

\* Context::get_var
get_var(ctx, varname) ==
    IF varname \in DOMAIN ctx.vars THEN Some(ctx.vars[varname]) ELSE None

\* Context::has_var
has_var(ctx, varname) == get_var(ctx, varname) # None

\* Context::create_var: HashMap::insert overwrites an existing key
create_var(map, varname, val) == (varname :> val) @@ map

\* Context::get_var_mut followed by the store through the reference
set_var(map, varname, val) == [map EXCEPT ![varname] = val]

\* GlobalContext::add_func: the assert, then the insert
add_func(fns, func_name, func) ==
    IF func_name \in DOMAIN fns
    THEN [panic |-> MsgFuncDefined, functions |-> fns]
    ELSE [panic |-> "", functions |-> (func_name :> func) @@ fns]

\* Program::from_items: the loop over the items, then begin_body.unwrap().
\* n is the number of items the loop has pulled from the iterator, bb and fns
\* are the locals begin_body and global.functions.
RECURSIVE from_items(_, _, _, _)
from_items(its, n, bb, fns) ==
    IF n = Len(its)
    THEN IF bb = None
         THEN [panic |-> MsgNoBegin, consumed |-> n, begin_body |-> bb, functions |-> fns]
         ELSE [panic |-> "", consumed |-> n, begin_body |-> bb, functions |-> fns]
    ELSE LET i == its[n + 1] IN
         IF i.tag = "EntryBlock"
         THEN IF bb # None
              THEN [panic |-> MsgMultipleBegin, consumed |-> n + 1,
                    begin_body |-> bb, functions |-> fns]
              ELSE from_items(its, n + 1, Some(i.body), fns)
         ELSE LET added == add_func(fns, i.name, Function(i.arg_names, i.body)) IN
              IF added.panic # ""
              THEN [panic |-> added.panic, consumed |-> n + 1,
                    begin_body |-> bb, functions |-> fns]
              ELSE from_items(its, n + 1, bb, added.functions)

Top == stack[Len(stack)]
Stmt == Top.body[Top.pc]
Kont == Top.kont[Len(Top.kont)]
IsEntry == Len(stack) = 1

SetTop(ctx) == stack' = [stack EXCEPT ![Len(stack)] = ctx]
Reduce(e) == [mode |-> "reduce", expr |-> e]
Value(v) == [mode |-> "value", value |-> v]
Pop(s) == SubSeq(s, 1, Len(s) - 1)

Panic(msg) ==
    /\ phase' = "panicked"
    /\ panic' = msg
    /\ UNCHANGED <<items, consumed, begin_body, functions, stack, profile>>
    /\ UNCHANGED <<lexVars, parseVars>>

Step ==
    /\ UNCHANGED <<items, consumed, begin_body, functions, phase, panic, profile>>
    /\ UNCHANGED <<lexVars, parseVars>>

AtStmt ==
    /\ phase = "executing"
    /\ Top.ctrl.mode = "stmt"
    /\ Top.pc <= Len(Top.body)

AtReduce == phase = "executing" /\ Top.ctrl.mode = "reduce"

AtValue == phase = "executing" /\ Top.ctrl.mode = "value"

AtZip == phase = "executing" /\ Top.ctrl.mode = "zip"

AtEnd ==
    /\ phase = "executing"
    /\ Top.ctrl.mode = "stmt"
    /\ Top.pc > Len(Top.body)

\* ---- faulty variants of the actions below
\* a return statement of the entry block evaluated like any other
ExecuteReturnEvaluated ==
    /\ AtStmt /\ IsEntry
    /\ Stmt.tag = "Return"
    /\ SetTop([Top EXCEPT !.ctrl = Reduce(Stmt.value)])
    /\ Step

\* a declaration of a name the scope holds, evaluated without the assert
EvalRedeclarationUnchecked ==
    /\ AtStmt
    /\ Stmt.tag = "VarDeclaration"
    /\ Stmt.variable \in DOMAIN Top.vars
    /\ SetTop([Top EXCEPT !.ctrl = Reduce(Stmt.value)])
    /\ Step

\* a call with the wrong number of arguments that starts reducing them
CallArityAfterArguments ==
    /\ AtReduce
    /\ Top.ctrl.expr.tag = "FuncCall"
    /\ Top.ctrl.expr.func_name \in DOMAIN functions
    /\ Len(functions[Top.ctrl.expr.func_name].arg_names) # Len(Top.ctrl.expr.args)
    /\ SetTop([Top EXCEPT
            !.kont = Append(@, [k |-> "call",
                                func_name |-> Top.ctrl.expr.func_name,
                                args |-> Top.ctrl.expr.args,
                                next |-> 1,
                                ctx_vars |-> EmptyMap]),
            !.ctrl = [mode |-> "zip"]])
    /\ Step

\* a body that ends without a return hands the caller a zero
CallDefaultReturn ==
    /\ AtEnd /\ ~IsEntry
    /\ Top.func_ret = None
    /\ stack' = [Pop(stack) EXCEPT
            ![Len(stack) - 1].kont = Pop(@),
            ![Len(stack) - 1].ctrl = Value(U32(0))]
    /\ Step

\* ---- Program::from_items
FromItems ==
    /\ phase = "parsed"
    /\ LET r == from_items(items, 0, None, EmptyMap) IN
       /\ consumed' = r.consumed
       /\ begin_body' = r.begin_body
       /\ functions' = r.functions
       /\ panic' = r.panic
       /\ phase' = IF r.panic = "" THEN "built" ELSE "panicked"
    /\ UNCHANGED <<items, stack, profile, lexVars, parseVars>>

\* ---- Program::execute
ExecuteStart ==
    /\ phase = "built"
    /\ phase' = "executing"
    /\ stack' = <<ContextNew("begin", begin_body[1])>>
    /\ UNCHANGED <<items, consumed, begin_body, functions, panic, profile, lexVars, parseVars>>

ExecuteReturn ==
    /\ AtStmt /\ IsEntry
    /\ Stmt.tag = "Return"
    /\ Panic(MsgReturnInBegin)

ExecuteFinish ==
    /\ AtEnd /\ IsEntry
    /\ phase' = "finished"
    /\ UNCHANGED <<items, consumed, begin_body, functions, stack, panic, profile>>
    /\ UNCHANGED <<lexVars, parseVars>>

\* ---- Context::eval
EvalVarDeclaration ==
    /\ AtStmt
    /\ Stmt.tag = "VarDeclaration"
    /\ ~has_var(Top, Stmt.variable)
    /\ SetTop([Top EXCEPT !.ctrl = Reduce(Stmt.value)])
    /\ Step

EvalRedeclaration ==
    /\ AtStmt
    /\ Stmt.tag = "VarDeclaration"
    /\ has_var(Top, Stmt.variable)
    /\ Panic(MsgRedeclaration)

EvalAssignment ==
    /\ AtStmt
    /\ Stmt.tag = "Assignment"
    /\ has_var(Top, Stmt.variable)
    /\ SetTop([Top EXCEPT !.ctrl = Reduce(Stmt.value)])
    /\ Step

EvalNotDefined ==
    /\ AtStmt
    /\ Stmt.tag = "Assignment"
    /\ ~has_var(Top, Stmt.variable)
    /\ Panic(MsgNotDefined)

EvalReturn ==
    /\ AtStmt /\ ~IsEntry
    /\ Stmt.tag = "Return"
    /\ Top.func_ret = None
    /\ SetTop([Top EXCEPT !.ctrl = Reduce(Stmt.value)])
    /\ Step

EvalAlreadyReturned ==
    /\ AtStmt /\ ~IsEntry
    /\ Stmt.tag = "Return"
    /\ Top.func_ret # None
    /\ Panic(MsgAlreadyReturned)

\* the reduced value reaches the statement that asked for it
StoreVarDeclaration ==
    /\ AtValue /\ Top.kont = <<>>
    /\ Stmt.tag = "VarDeclaration"
    /\ SetTop([Top EXCEPT !.vars = create_var(Top.vars, Stmt.variable, Top.ctrl.value),
                          !.pc = @ + 1, !.ctrl = [mode |-> "stmt"]])
    /\ Step

StoreAssignment ==
    /\ AtValue /\ Top.kont = <<>>
    /\ Stmt.tag = "Assignment"
    /\ SetTop([Top EXCEPT !.vars = set_var(Top.vars, Stmt.variable, Top.ctrl.value),
                          !.pc = @ + 1, !.ctrl = [mode |-> "stmt"]])
    /\ Step

StoreReturn ==
    /\ AtValue /\ Top.kont = <<>>
    /\ Stmt.tag = "Return"
    /\ SetTop([Top EXCEPT !.func_ret = Some(Top.ctrl.value),
                          !.pc = @ + 1, !.ctrl = [mode |-> "stmt"]])
    /\ Step

\* ---- Context::reduce_expr
ReduceIntLit ==
    /\ AtReduce
    /\ Top.ctrl.expr.tag = "IntLit"
    /\ SetTop([Top EXCEPT !.ctrl = Value(Top.ctrl.expr.value)])
    /\ Step

ReduceVarRef ==
    /\ AtReduce
    /\ Top.ctrl.expr.tag = "VarRef"
    /\ get_var(Top, Top.ctrl.expr.variable) # None
    /\ SetTop([Top EXCEPT !.ctrl = Value(get_var(Top, Top.ctrl.expr.variable)[1])])
    /\ Step

ReduceNoVariable ==
    /\ AtReduce
    /\ Top.ctrl.expr.tag = "VarRef"
    /\ get_var(Top, Top.ctrl.expr.variable) = None
    /\ Panic(MsgNoVariable)

ReduceAdd ==
    /\ AtReduce
    /\ Top.ctrl.expr.tag = "Add"
    /\ SetTop([Top EXCEPT
            !.kont = Append(@, [k |-> "add_rhs", rhs |-> Top.ctrl.expr.rhs]),
            !.ctrl = Reduce(Top.ctrl.expr.lhs)])
    /\ Step

AddLhs ==
    /\ AtValue /\ Top.kont # <<>>
    /\ Kont.k = "add_rhs"
    /\ SetTop([Top EXCEPT
            !.kont = Append(Pop(@), [k |-> "add_sum", l |-> Top.ctrl.value]),
            !.ctrl = Reduce(Kont.rhs)])
    /\ Step

\* l + r on u32: the sum when it fits
AddSum ==
    /\ AtValue /\ Top.kont # <<>>
    /\ Kont.k = "add_sum"
    /\ ~Overflows(Kont.l, Top.ctrl.value)
    /\ SetTop([Top EXCEPT !.kont = Pop(@),
                          !.ctrl = Value(WrappingAdd(Kont.l, Top.ctrl.value))])
    /\ Step

\* l + r on u32 when the sum does not fit, built without overflow checks
\* (cargo's release profile): the sum wraps
AddWrap ==
    /\ AtValue /\ Top.kont # <<>>
    /\ Kont.k = "add_sum"
    /\ Overflows(Kont.l, Top.ctrl.value)
    /\ SetTop([Top EXCEPT !.kont = Pop(@),
                          !.ctrl = Value(WrappingAdd(Kont.l, Top.ctrl.value))])
    /\ profile' = "release"
    /\ UNCHANGED <<items, consumed, begin_body, functions, phase, panic, lexVars, parseVars>>

\* l + r on u32 when the sum does not fit, built with overflow checks
\* (cargo's dev profile): the add panics
AddOverflow ==
    /\ AtValue /\ Top.kont # <<>>
    /\ Kont.k = "add_sum"
    /\ Overflows(Kont.l, Top.ctrl.value)
    /\ profile = "any"
    /\ Panic(MsgAddOverflow)

\* ---- GlobalContext::call_func and Function::call
ReduceFuncCall ==
    /\ AtReduce
    /\ Top.ctrl.expr.tag = "FuncCall"
    /\ Top.ctrl.expr.func_name \in DOMAIN functions
    /\ Len(functions[Top.ctrl.expr.func_name].arg_names) = Len(Top.ctrl.expr.args)
    /\ SetTop([Top EXCEPT
            !.kont = Append(@, [k |-> "call",
                                func_name |-> Top.ctrl.expr.func_name,
                                args |-> Top.ctrl.expr.args,
                                next |-> 1,
                                ctx_vars |-> EmptyMap]),
            !.ctrl = [mode |-> "zip"]])
    /\ Step

CallNoFunc ==
    /\ AtReduce
    /\ Top.ctrl.expr.tag = "FuncCall"
    /\ Top.ctrl.expr.func_name \notin DOMAIN functions
    /\ Panic(MsgNoFunc)

CallArity ==
    /\ AtReduce
    /\ Top.ctrl.expr.tag = "FuncCall"
    /\ Top.ctrl.expr.func_name \in DOMAIN functions
    /\ Len(functions[Top.ctrl.expr.func_name].arg_names) # Len(Top.ctrl.expr.args)
    /\ Panic(MsgArity)

\* the zip pulls the next argument: the map closure reduces it in the
\* caller's Context
ZipNext ==
    /\ AtZip
    /\ Kont.next <= Len(Kont.args)
    /\ SetTop([Top EXCEPT !.ctrl = Reduce(Kont.args[Kont.next])])
    /\ Step

\* ctx.create_var(name, argval)
ZipBind ==
    /\ AtValue /\ Top.kont # <<>>
    /\ Kont.k = "call"
    /\ SetTop([Top EXCEPT
            !.kont[Len(Top.kont)] =
                [Kont EXCEPT
                    !.ctx_vars = create_var(@,
                        functions[Kont.func_name].arg_names[Kont.next],
                        Top.ctrl.value),
                    !.next = @ + 1],
            !.ctrl = [mode |-> "zip"]])
    /\ Step

\* the zip is exhausted: the loop over the body starts in the new Context
CallBody ==
    /\ AtZip
    /\ Kont.next > Len(Kont.args)
    /\ Len(stack) < MaxDepth
    /\ stack' = Append([stack EXCEPT ![Len(stack)].ctrl = [mode |-> "call"]],
                       [ContextNew(Kont.func_name, functions[Kont.func_name].body)
                            EXCEPT !.vars = Kont.ctx_vars])
    /\ Step

\* no room for another call on the call stack: the process is killed
CallStackOverflow ==
    /\ AtZip
    /\ Kont.next > Len(Kont.args)
    /\ Len(stack) >= MaxDepth
    /\ Panic(MsgStackOverflow)

\* ctx.func_ret.expect(..): Some
CallReturn ==
    /\ AtEnd /\ ~IsEntry
    /\ Top.func_ret # None
    /\ stack' = [Pop(stack) EXCEPT
            ![Len(stack) - 1].kont = Pop(@),
            ![Len(stack) - 1].ctrl = Value(Top.func_ret[1])]
    /\ Step

\* ctx.func_ret.expect(..): None
CallNoReturn ==
    /\ AtEnd /\ ~IsEntry
    /\ Top.func_ret = None
    /\ Panic(MsgNoReturn)

(***************************************************************************)
(* The programs the evaluator is run on                                    *)
(***************************************************************************)
\* func add(a, b) { return a + b; }
\* func inc(x) { x = x + 1; return x; }
\* func nest(x) { var y = inc(x); return add(x, y); }
\* func peek(a) { return add(x, nofn()); }
\* func noret(a) { var y = zero(); }
\* func twice(a) { return a; return a; }
\* func rec(x) { var y = rec(x + 1); return y; }
\* func dupp(a, a) { return a; }
\* func shadow(a) { var a = 1; return a; }
\* func zero() { return 7; }
FuncItems ==
    << FuncDef("add", <<"a", "b">>,
           <<Return(Add(VarRef("a"), VarRef("b")))>>),
       FuncDef("inc", <<"x">>,
           <<Assignment("x", Add(VarRef("x"), IntLit(U32(1)))),
             Return(VarRef("x"))>>),
       FuncDef("nest", <<"x">>,
           <<VarDeclaration("y", FuncCall("inc", <<VarRef("x")>>)),
             Return(FuncCall("add", <<VarRef("x"), VarRef("y")>>))>>),
       FuncDef("peek", <<"a">>,
           <<Return(FuncCall("add", <<VarRef("x"), FuncCall("nofn", <<>>)>>))>>),
       FuncDef("noret", <<"a">>,
           <<VarDeclaration("y", FuncCall("zero", <<>>))>>),
       FuncDef("twice", <<"a">>,
           <<Return(VarRef("a")), Return(VarRef("a"))>>),
       FuncDef("rec", <<"x">>,
           <<VarDeclaration("y",
                 FuncCall("rec", <<Add(VarRef("x"), IntLit(U32(1)))>>)),
             Return(VarRef("y"))>>),
       FuncDef("dupp", <<"a", "a">>,
           <<Return(VarRef("a"))>>),
       FuncDef("shadow", <<"a">>,
           <<VarDeclaration("a", IntLit(U32(1))), Return(VarRef("a"))>>),
       FuncDef("zero", <<>>,
           <<Return(IntLit(U32(7)))>>) >>

\* The statements an entry block is made of.
EntryStmts ==
    { VarDeclaration("x", IntLit(U32(1))),
      VarDeclaration("x", IntLit(U32Max)),
      VarDeclaration("y", VarRef("x")),
      Assignment("x", Add(VarRef("x"), IntLit(U32(1)))),
      Return(VarRef("x")),
      VarDeclaration("r", FuncCall("add", <<IntLit(U32(2)), IntLit(U32(3))>>)),
      VarDeclaration("y", FuncCall("nest", <<VarRef("x")>>)),
      VarDeclaration("y", FuncCall("peek", <<VarRef("x")>>)),
      VarDeclaration("y", FuncCall("rec", <<VarRef("x")>>)),
      VarDeclaration("y", FuncCall("noret", <<VarRef("x")>>)),
      VarDeclaration("y", FuncCall("twice", <<VarRef("x")>>)),
      VarDeclaration("y", FuncCall("dupp", <<IntLit(U32(1)), IntLit(U32(2))>>)),
      VarDeclaration("y", FuncCall("shadow", <<VarRef("x")>>)),
      VarDeclaration("y", FuncCall("add", <<VarRef("q")>>)),
      VarDeclaration("y", FuncCall("nofn", <<VarRef("q")>>)) }

EntryBodies == UNION { [1..n -> EntryStmts] : n \in 0..MaxStmts }

\* The item sequences: the entry block before or after the function
\* definitions, no entry block, a second entry block, a function defined twice.
Programs(body) ==
    { <<EntryBlock(body)>> \o FuncItems,
      FuncItems \o <<EntryBlock(body)>>,
      FuncItems,
      <<EntryBlock(body)>> \o FuncItems \o <<EntryBlock(<<>>)>>,
      <<FuncItems[1], EntryBlock(body)>> \o FuncItems }

LexIdle == src = <<>> /\ idx = 0 /\ emitted = <<>> /\ lex_state = "eof"
ParseIdle == tokens = <<>> /\ parsed = <<>> /\ parse_state = "end"
EvalIdle ==
    /\ items = <<>> /\ consumed = 0 /\ begin_body = None /\ functions = EmptyMap
    /\ phase = "finished" /\ stack = <<>> /\ panic = "" /\ profile = "any"

Init ==
    /\ \E body \in EntryBodies : items \in Programs(body)
    /\ consumed = 0
    /\ begin_body = None
    /\ functions = EmptyMap
    /\ phase = "parsed"
    /\ stack = <<>>
    /\ panic = ""
    /\ profile = "any"
    /\ LexIdle
    /\ ParseIdle

Next ==
    \/ FromItems
    \/ ExecuteStart
    \/ ExecuteReturn
    \/ ExecuteFinish
    \/ EvalVarDeclaration
    \/ EvalRedeclaration
    \/ EvalAssignment
    \/ EvalNotDefined
    \/ EvalReturn
    \/ EvalAlreadyReturned
    \/ StoreVarDeclaration
    \/ StoreAssignment
    \/ StoreReturn
    \/ ReduceIntLit
    \/ ReduceVarRef
    \/ ReduceNoVariable
    \/ ReduceAdd
    \/ AddLhs
    \/ AddSum
    \/ AddWrap
    \/ AddOverflow
    \/ ReduceFuncCall
    \/ CallNoFunc
    \/ CallArity
    \/ ZipNext
    \/ ZipBind
    \/ CallBody
    \/ CallStackOverflow
    \/ CallReturn
    \/ CallNoReturn

Spec == Init /\ [][Next]_vars

(***************************************************************************)
(* Properties of the evaluator                                             *)
(***************************************************************************)
Range(f) == { f[i] : i \in DOMAIN f }
Frames == 1..Len(stack)
Terminated == phase \in {"finished", "panicked"}
HasReturn(body) == \E j \in 1..Len(body) : body[j].tag = "Return"
FirstReturn(body) ==
    CHOOSE j \in 1..Len(body) :
        /\ body[j].tag = "Return"
        /\ \A k \in 1..(j - 1) : body[k].tag # "Return"

\* the parameters of the function a Context runs (none for the entry block)
Params(ctx) ==
    IF ctx.func = "begin" THEN {} ELSE Range(functions[ctx.func].arg_names)

\* the names declared by the statements a Context has executed
Declared(ctx) ==
    { ctx.body[j].variable :
        j \in { k \in 1..(ctx.pc - 1) : ctx.body[k].tag = "VarDeclaration" } }

\* how many return statements a Context has executed
ReturnsExecuted(ctx) ==
    Cardinality({ j \in 1..(ctx.pc - 1) : ctx.body[j].tag = "Return" })

\* an expression with no call in it, and its value in a scope
RECURSIVE CallFree(_)
CallFree(e) ==
    CASE e.tag = "IntLit" -> TRUE
      [] e.tag = "VarRef" -> TRUE
      [] e.tag = "Add" -> CallFree(e.lhs) /\ CallFree(e.rhs)
      [] OTHER -> FALSE

RECURSIVE SimpleValue(_, _)
SimpleValue(scope, e) ==
    CASE e.tag = "IntLit" -> e.value
      [] e.tag = "VarRef" -> scope[e.variable]
      [] OTHER -> WrappingAdd(SimpleValue(scope, e.lhs), SimpleValue(scope, e.rhs))

\* the call a Context is making: the newest pending call of its reduce_expr
InCall(ctx) == ctx.kont # <<>> /\ ctx.kont[Len(ctx.kont)].k = "call"
CallOf(ctx) == ctx.kont[Len(ctx.kont)]
AllBound(ctx) == InCall(ctx) /\ CallOf(ctx).next > Len(CallOf(ctx).args)
LastPos(names, n) ==
    CHOOSE i \in 1..Len(names) :
        names[i] = n /\ \A j \in (i + 1)..Len(names) : names[j] # n

AddTwoThree == FuncCall("add", <<IntLit(U32(2)), IntLit(U32(3))>>)

\* ---- C2 ----------------------------------------------------------------
\* r of `var r = add(2, 3)` is 5
C2_AddExample ==
    \A i \in Frames : \A j \in 1..(stack[i].pc - 1) :
        stack[i].body[j] = VarDeclaration("r", AddTwoThree)
            => stack[i].vars["r"] = U32(5)

\* a return statement stores the value of its expression in the callee's scope
C2_ReturnValue ==
    \A i \in Frames :
        LET ctx == stack[i] IN
        (/\ ctx.pc > 1
         /\ ctx.body[ctx.pc - 1].tag = "Return"
         /\ CallFree(ctx.body[ctx.pc - 1].value)
         /\ ctx.func_ret # None)
            => ctx.func_ret[1] = SimpleValue(ctx.vars, ctx.body[ctx.pc - 1].value)

Pushes == stack # <<>> /\ Len(stack') = Len(stack) + 1
\* the step returns from a call
Pops == stack # <<>> /\ Len(stack') = Len(stack) - 1

\* C3: a call's body starts in a scope that holds exactly the callee's
\* parameters and an empty pending-return slot; a variable reference the
\* current scope does not hold fails with UndefinedVariable, whatever the
\* scopes of the callers hold; no step changes the variables or the
\* pending-return slot of a Context other than the running one, nor of the
\* running one while it reduces an expression, so the caller's scope after a
\* call is its scope before the call.
C3_Step ==
    /\ Pushes =>
        /\ DOMAIN stack'[Len(stack')].vars
              = Range(functions[stack'[Len(stack')].func].arg_names)
        /\ stack'[Len(stack')].vars = CallOf(Top).ctx_vars
        /\ stack'[Len(stack')].func_ret = None
    /\ (/\ AtReduce
        /\ Top.ctrl.expr.tag = "VarRef"
        /\ Top.ctrl.expr.variable \notin DOMAIN Top.vars)
            => (phase' = "panicked" /\ panic' = MsgNoVariable)
    /\ \A i \in Frames :
        (i <= Len(stack') /\ (i < Len(stack) \/ Top.kont # <<>>)) =>
            /\ stack'[i].vars = stack[i].vars
            /\ stack'[i].func_ret = stack[i].func_ret
            /\ stack'[i].func = stack[i].func

C3_ScopeIsolation == [][C3_Step]_vars

\* inc, called by nest, is about to return: both scopes hold a variable x,
\* with different values
C3_Witness ==
    /\ phase = "executing"
    /\ Len(stack) >= 3
    /\ stack[Len(stack) - 1].func = "nest"
    /\ Top.func = "inc"
    /\ AtEnd
    /\ Top.vars["x"] # stack[Len(stack) - 1].vars["x"]
    /\ "x" \in DOMAIN stack[1].vars

\* ---- C4 ----------------------------------------------------------------
EntryBlocks(its) == { j \in 1..Len(its) : its[j].tag = "EntryBlock" }
FuncDefs(its) == { j \in 1..Len(its) : its[j].tag = "FuncDef" }
Malformed(its) ==
    \/ Cardinality(EntryBlocks(its)) # 1
    \/ \E j, k \in FuncDefs(its) : j # k /\ its[j].name = its[k].name

\* C4: from_items fails exactly on the item sequences with no entry block,
\* several entry blocks or a function name defined twice, and then no Context
\* is ever created; when a Context exists the whole sequence has been
\* consumed, every function definition is in the table, and the table and the
\* entry block's statements do not change while the program runs.
C4_Step ==
    /\ phase = "parsed" =>
        /\ Malformed(items) <=>
              (phase' = "panicked" /\ ErrorKind(panic') = "ProgramError")
        /\ ~Malformed(items) => phase' = "built"
        /\ stack' = <<>>
    /\ stack' # <<>> =>
        /\ consumed' = Len(items')
        /\ \A j \in FuncDefs(items') :
              /\ items'[j].name \in DOMAIN functions'
              /\ functions'[items'[j].name]
                    = Function(items'[j].arg_names, items'[j].body)
        /\ \E j \in EntryBlocks(items') : begin_body' = Some(items'[j].body)
    /\ phase # "parsed" =>
        /\ functions' = functions
        /\ begin_body' = begin_body
        /\ consumed' = consumed
    /\ ErrorKind(panic') = "ProgramError" => stack' = <<>>

C4_BuildBeforeExecute == [][C4_Step]_vars

\* the entry block stands first in the source, and has called add
C4_Witness ==
    /\ phase = "finished"
    /\ items[1].tag = "EntryBlock"
    /\ "r" \in DOMAIN stack[1].vars
    /\ stack[1].vars["r"] = U32(5)

\* ---- C5 ----------------------------------------------------------------
\* C5: in every Context the variable names are the parameters plus the names
\* declared by the statements executed so far; declaring a name the scope
\* holds fails with Redeclaration, assigning to a name it does not hold fails
\* with AssignToUndeclared, and both leave every scope as it was.
C5_Names ==
    \A i \in Frames : DOMAIN stack[i].vars = Params(stack[i]) \cup Declared(stack[i])

C5_Step ==
    /\ C5_Names'
    /\ (/\ AtStmt
        /\ Stmt.tag = "VarDeclaration"
        /\ Stmt.variable \in DOMAIN Top.vars)
            => (/\ phase' = "panicked"
                /\ ErrorKind(panic') = "Redeclaration"
                /\ stack' = stack)
    /\ (/\ AtStmt
        /\ Stmt.tag = "Assignment"
        /\ Stmt.variable \notin DOMAIN Top.vars)
            => (/\ phase' = "panicked"
                /\ ErrorKind(panic') = "AssignToUndeclared"
                /\ stack' = stack)

C5_ScopeNames == [][C5_Step]_vars

\* shadow's `var a = 1;` has failed on the parameter a, which keeps the
\* argument's value
C5_Witness ==
    /\ phase = "panicked"
    /\ panic = MsgRedeclaration
    /\ Top.func = "shadow"
    /\ Top.vars["a"] # U32(1)

\* ---- C6 ----------------------------------------------------------------
\* C6: a Context's pending-return slot is set exactly when it has executed
\* one return statement, and is never set again; a call returns only from a
\* Context that executed exactly one return, and hands over the slot's value;
\* the end of a body with the slot empty fails with MissingReturn and a
\* return with the slot set fails with DoubleReturn, and neither hands a value
\* to the caller.
C6_Slot ==
    \A i \in Frames :
        /\ stack[i].func_ret = None <=> ReturnsExecuted(stack[i]) = 0
        /\ stack[i].func_ret # None => ReturnsExecuted(stack[i]) = 1

C6_Step ==
    /\ C6_Slot'
    /\ Pops =>
        /\ ReturnsExecuted(Top) = 1
        /\ stack'[Len(stack')].ctrl = Value(Top.func_ret[1])
    /\ (AtEnd /\ ~IsEntry /\ Top.func_ret = None)
            => (/\ phase' = "panicked"
                /\ ErrorKind(panic') = "MissingReturn"
                /\ stack' = stack)
    /\ (AtStmt /\ ~IsEntry /\ Stmt.tag = "Return" /\ Top.func_ret # None)
            => (/\ phase' = "panicked"
                /\ ErrorKind(panic') = "DoubleReturn"
                /\ stack' = stack)
    /\ \A i \in Frames :
        (i <= Len(stack') /\ stack[i].func_ret # None)
            => stack'[i].func_ret = stack[i].func_ret

C6_OneReturn == [][C6_Step]_vars

\* noret's body has ended without a return: the call has failed and its
\* caller waits for a value that never comes
C6_Witness ==
    /\ phase = "panicked"
    /\ panic = MsgNoReturn
    /\ Top.func = "noret"
    /\ stack[Len(stack) - 1].ctrl.mode = "call"

\* ---- C7 ----------------------------------------------------------------
EntryHasReturn == begin_body # None /\ HasReturn(begin_body[1])

\* C7 as stated: a run whose entry block contains a return statement ends
\* with ReturnOutsideFunction.
C7_ReturnAlwaysRejected ==
    (stack # <<>> /\ Terminated /\ EntryHasReturn)
        => (phase = "panicked" /\ ErrorKind(panic) = "ReturnOutsideFunction")

\* C7 as amended: the entry block's pending-return slot is never set; a run
\* whose entry block contains a return statement never completes, and fails
\* with ReturnOutsideFunction when it reaches the first return, which it does
\* unless an earlier statement of the block has failed; an entry block without
\* a return statement never fails with ReturnOutsideFunction.
C7_ReturnRejectedWhenReached ==
    stack # <<>> =>
        /\ stack[1].func_ret = None
        /\ EntryHasReturn => phase # "finished"
        /\ (/\ EntryHasReturn
            /\ phase = "panicked"
            /\ stack[1].pc = FirstReturn(begin_body[1]))
                => (Len(stack) = 1 /\ ErrorKind(panic) = "ReturnOutsideFunction")
        /\ (/\ EntryHasReturn
            /\ phase = "panicked"
            /\ stack[1].pc # FirstReturn(begin_body[1]))
                => (/\ stack[1].pc < FirstReturn(begin_body[1])
                    /\ ErrorKind(panic) # "ReturnOutsideFunction")
        /\ ~EntryHasReturn => ErrorKind(panic) # "ReturnOutsideFunction"

\* `var x = 1; return x;` has failed at the return, with x declared
C7_Witness ==
    /\ phase = "panicked"
    /\ panic = MsgReturnInBegin
    /\ stack[1].pc = 2
    /\ "x" \in DOMAIN stack[1].vars
    /\ stack[1].func_ret = None

\* ---- C8 ----------------------------------------------------------------
\* an argument whose reduction is known to fail in the scope: a reference to
\* a variable the scope does not hold
FailsToReduce(scope, e) == e.tag = "VarRef" /\ e.variable \notin DOMAIN scope

\* C8 as stated: an ArityMismatch is reported only after every argument of
\* the call has been reduced, so never for a call one of whose arguments
\* fails to reduce.
C8_ArgumentsBeforeArity ==
    (phase = "panicked" /\ ErrorKind(panic) = "ArityMismatch")
        => \A k \in 1..Len(Top.ctrl.expr.args) :
               ~FailsToReduce(Top.vars, Top.ctrl.expr.args[k])

\* C8 as amended: reducing a call looks the function up (UndefinedFunction if
\* absent), then compares the argument count with the parameter count
\* (ArityMismatch) before any argument is reduced, then reduces the arguments
\* one by one from the left in the caller's Context, binding each to its
\* parameter, and starts the body in the new Context only when all of them
\* are bound.
C8_Step ==
    /\ (AtReduce /\ Top.ctrl.expr.tag = "FuncCall") =>
        LET e == Top.ctrl.expr IN
        IF e.func_name \notin DOMAIN functions
        THEN phase' = "panicked" /\ ErrorKind(panic') = "UndefinedFunction"
        ELSE IF Len(functions[e.func_name].arg_names) # Len(e.args)
        THEN /\ phase' = "panicked"
             /\ ErrorKind(panic') = "ArityMismatch"
             /\ stack' = stack
        ELSE /\ phase' = "executing"
             /\ Len(stack') = Len(stack)
             /\ InCall(stack'[Len(stack')])
             /\ CallOf(stack'[Len(stack')]).next = 1
             /\ CallOf(stack'[Len(stack')]).args = e.args
    /\ (AtZip /\ phase' = "executing" /\ ~Pushes) =>
        /\ Kont.next <= Len(Kont.args)
        /\ Len(stack') = Len(stack)
        /\ stack'[Len(stack')].ctrl = Reduce(Kont.args[Kont.next])
        /\ stack'[Len(stack')].vars = Top.vars
    /\ (AtValue /\ InCall(Top)) =>
        /\ Len(stack') = Len(stack)
        /\ CallOf(stack'[Len(stack')]).next = Kont.next + 1
        /\ stack'[Len(stack')].ctrl.mode = "zip"
    /\ Pushes =>
        /\ AtZip
        /\ Kont.next = Len(Kont.args) + 1
        /\ stack'[Len(stack')].pc = 1

C8_CallOrder == [][C8_Step]_vars

\* `add(q)`: one argument for two parameters, and q is not declared; the
\* call has failed with ArityMismatch
C8_Witness ==
    /\ phase = "panicked"
    /\ panic = MsgArity
    /\ Top.ctrl.expr.func_name = "add"
    /\ FailsToReduce(Top.vars, Top.ctrl.expr.args[1])

\* ---- C10 ---------------------------------------------------------------
\* (l + r) mod 2^32, from the halves of l and r
Mod32Sum(l, r) ==
    LET lo == l.lo + r.lo
        hi == l.hi + r.hi + (IF lo >= Half THEN 1 ELSE 0)
    IN [hi |-> IF hi >= Half THEN hi - Half ELSE hi,
        lo |-> IF lo >= Half THEN lo - Half ELSE lo]

\* C10 as stated: an addition whose operands are reduced yields
\* (l + r) mod 2^32 and does not fail.
C10_Step ==
    (AtValue /\ Top.kont # <<>> /\ Kont.k = "add_sum") =>
        /\ phase' = "executing"
        /\ stack'[Len(stack')].ctrl = Value(Mod32Sum(Kont.l, Top.ctrl.value))

C10_AddWraps == [][C10_Step]_vars

(***************************************************************************)
(* Tokenizer (lex.rs)                                                      *)
(*                                                                         *)
(* The source text is a sequence of bytes, as a Rust str is; "C3" "A9" are *)
(* the two bytes of the letter e-acute (the char "E9"), the other bytes    *)
(* are ASCII characters.  TokenStream.idx and eat_while's slice count      *)
(* bytes, while eat_while's nmatching counts chars.                        *)
(***************************************************************************)
\* sources are made of at most this many pieces
MaxPieces == 2

LeadByte == "C3"
ContByte == "A9"
EAcute == "E9"

\* the chars the model's sources contain, by the predicates lex.rs applies
AsciiLetters == {"a", "b", "c", "e", "f", "g", "i", "n", "r", "t", "u", "v", "x"}
Alphabetic == AsciiLetters \cup {EAcute}       \* char::is_alphabetic
AsciiDigits == {"2", "4", "7"}                 \* char::is_ascii_digit
AsciiWhitespace == {" ", "\n"}                 \* char::is_ascii_whitespace

Pieces ==
    { <<"b", "e", "g", "i", "n">>, <<"v", "a", "r">>, <<"f", "u", "n", "c">>,
      <<"r", "e", "t", "u", "r", "n">>, <<"x">>, <<LeadByte, ContByte>>,
      <<" ">>, <<"\n">>, <<"{">>, <<"}">>, <<"(">>, <<")">>, <<"=">>, <<"+">>,
      <<",">>, <<";">>, <<"7">>, <<"4", "2">>, <<"#">> }

RECURSIVE Concat(_)
Concat(ps) == IF ps = <<>> THEN <<>> ELSE Head(ps) \o Concat(Tail(ps))

Sources == { Concat(ps) : ps \in UNION { [1..n -> Pieces] : n \in 0..MaxPieces } }

\* str::chars: the chars of a byte sequence; a char is its byte when ASCII
RECURSIVE chars(_)
chars(bytes) ==
    IF bytes = <<>> THEN <<>>
    ELSE IF bytes[1] = LeadByte
         THEN <<EAcute>> \o chars(SubSeq(bytes, 3, Len(bytes)))
         ELSE <<bytes[1]>> \o chars(Tail(bytes))

\* TokenStream::tail at byte offset i
tail(i) == SubSeq(src, i + 1, Len(src))

\* str::is_char_boundary
is_char_boundary(bytes, n) == n = Len(bytes) \/ (n < Len(bytes) /\ bytes[n + 1] # ContByte)

\* chars().take_while(predicate).count()
RECURSIVE take_while_count(_, _)
take_while_count(cs, matching) ==
    IF cs = <<>> \/ cs[1] \notin matching THEN 0
    ELSE 1 + take_while_count(Tail(cs), matching)

\* TokenStream::eat_while at byte offset i: what it returns and where it
\* leaves idx; the slice tail()[0..nmatching] panics off a char boundary
eat_while(i, matching) ==
    LET nmatching == take_while_count(chars(tail(i)), matching) IN
    IF nmatching = 0
    THEN [panics |-> FALSE, s |-> None, idx |-> i]
    ELSE IF ~is_char_boundary(tail(i), nmatching)
    THEN [panics |-> TRUE, s |-> None, idx |-> i]
    ELSE [panics |-> FALSE, s |-> Some(SubSeq(tail(i), 1, nmatching)), idx |-> i + nmatching]

\* TokenStream::consume_whitespace, as the idx it leaves
consume_whitespace(i) == eat_while(i, AsciiWhitespace).idx

\* Token
Token(kind) == [kind |-> kind, text |-> <<>>]
Ident(text) == [kind |-> "Ident", text |-> text]
Integer(text) == [kind |-> "Integer", text |-> text]

\* TokenStream::lex_bareword's match on the word
bareword(word) ==
    CASE word = <<"b", "e", "g", "i", "n">> -> Token("Begin")
      [] word = <<"v", "a", "r">> -> Token("Var")
      [] OTHER -> Ident(word)

\* TokenStream::lex_onechar_symbol's match on the char: None or Some(token)
onechar_symbol(ch) ==
    CASE ch = "{" -> Some(Token("LeftBrace"))
      [] ch = "}" -> Some(Token("RightBrace"))
      [] ch = "=" -> Some(Token("Equals"))
      [] ch = "(" -> Some(Token("LeftParen"))
      [] ch = ")" -> Some(Token("RightParen"))
      [] ch = "+" -> Some(Token("Plus"))
      [] ch = ";" -> Some(Token("Semicolon"))
      [] OTHER -> None

\* TokenStream::peek at byte offset i (the text is not at its end)
peek(i) == chars(tail(i))[1]

Emit(tok, from, to) ==
    /\ emitted' = Append(emitted, [token |-> tok, from |-> from, to |-> to])
    /\ idx' = to
    /\ UNCHANGED <<src, lex_state>>

Lexing == lex_state = "lexing"
Start == consume_whitespace(idx)

\* ---- TokenStream::next, by outcome
NextEof ==
    /\ Lexing
    /\ tail(Start) = <<>>
    /\ idx' = Start
    /\ lex_state' = "eof"
    /\ UNCHANGED <<src, emitted, evalVars, parseVars>>

NextBareword ==
    /\ Lexing
    /\ tail(Start) # <<>>
    /\ LET r == eat_while(Start, Alphabetic) IN
       /\ ~r.panics
       /\ r.s # None
       /\ Emit(bareword(r.s[1]), Start, r.idx)
    /\ UNCHANGED <<evalVars, parseVars>>

\* the slice in eat_while panics: byte index is not a char boundary
NextSlicePanic ==
    /\ Lexing
    /\ tail(Start) # <<>>
    /\ eat_while(Start, Alphabetic).panics
    /\ idx' = Start
    /\ lex_state' = "panicked"
    /\ UNCHANGED <<src, emitted, evalVars, parseVars>>

NextSymbol ==
    /\ Lexing
    /\ tail(Start) # <<>>
    /\ LET r == eat_while(Start, Alphabetic) IN ~r.panics /\ r.s = None
    /\ onechar_symbol(peek(Start)) # None
    /\ Emit(onechar_symbol(peek(Start))[1], Start, Start + 1)
    /\ UNCHANGED <<evalVars, parseVars>>

NextInteger ==
    /\ Lexing
    /\ tail(Start) # <<>>
    /\ LET r == eat_while(Start, Alphabetic) IN ~r.panics /\ r.s = None
    /\ onechar_symbol(peek(Start)) = None
    /\ LET r == eat_while(Start, AsciiDigits) IN
       /\ r.s # None
       /\ Emit(Integer(r.s[1]), Start, r.idx)
    /\ UNCHANGED <<evalVars, parseVars>>

\* panic!("Lexing error at idx {}")
NextLexError ==
    /\ Lexing
    /\ tail(Start) # <<>>
    /\ LET r == eat_while(Start, Alphabetic) IN ~r.panics /\ r.s = None
    /\ onechar_symbol(peek(Start)) = None
    /\ eat_while(Start, AsciiDigits).s = None
    /\ idx' = Start
    /\ lex_state' = "panicked"
    /\ UNCHANGED <<src, emitted, evalVars, parseVars>>

InitLex ==
    /\ src \in Sources
    /\ idx = 0
    /\ emitted = <<>>
    /\ lex_state = "lexing"
    /\ EvalIdle
    /\ ParseIdle

NextLex ==
    \/ NextEof
    \/ NextBareword
    \/ NextSlicePanic
    \/ NextSymbol
    \/ NextInteger
    \/ NextLexError

SpecLex == InitLex /\ [][NextLex]_vars

\* ---- C1 ----------------------------------------------------------------
\* the bytes of the longest prefix of `bytes` made of chars in `matching`
RECURSIVE RunBytes(_, _)
RunBytes(bytes, matching) ==
    IF bytes = <<>> THEN 0
    ELSE IF bytes[1] = LeadByte
         THEN IF EAcute \in matching
              THEN 2 + RunBytes(SubSeq(bytes, 3, Len(bytes)), matching)
              ELSE 0
         ELSE IF bytes[1] \in matching
              THEN 1 + RunBytes(Tail(bytes), matching)
              ELSE 0

Keyword(word) ==
    CASE word = <<"b", "e", "g", "i", "n">> -> Some(Token("Begin"))
      [] word = <<"v", "a", "r">> -> Some(Token("Var"))
      [] word = <<"f", "u", "n", "c">> -> Some(Token("Func"))
      [] word = <<"r", "e", "t", "u", "r", "n">> -> Some(Token("Return"))
      [] OTHER -> None

Symbol(ch) ==
    CASE ch = "{" -> Some(Token("LeftBrace"))
      [] ch = "}" -> Some(Token("RightBrace"))
      [] ch = "(" -> Some(Token("LeftParen"))
      [] ch = ")" -> Some(Token("RightParen"))
      [] ch = "=" -> Some(Token("Equals"))
      [] ch = "+" -> Some(Token("Plus"))
      [] ch = "," -> Some(Token("Comma"))
      [] ch = ";" -> Some(Token("Semicolon"))
      [] OTHER -> None

\* the token the classification of the spec gives at byte offset `from`, and
\* the offset it ends at; None where nothing classifies
Classified(from) ==
    LET bytes == tail(from)
        word == SubSeq(bytes, 1, RunBytes(bytes, Alphabetic))
        digits == SubSeq(bytes, 1, RunBytes(bytes, AsciiDigits))
    IN  IF word # <<>>
        THEN Some([token |-> IF Keyword(word) # None THEN Keyword(word)[1] ELSE Ident(word),
                   from |-> from, to |-> from + Len(word)])
        ELSE IF Symbol(bytes[1]) # None
        THEN Some([token |-> Symbol(bytes[1])[1], from |-> from, to |-> from + 1])
        ELSE IF digits # <<>>
        THEN Some([token |-> Integer(digits), from |-> from, to |-> from + Len(digits)])
        ELSE None

\* C1: every token the tokenizer yields is the one the classification gives
\* at the place it starts (the keyword token for begin, var, func and return,
\* an identifier spanning any other alphabetic run, the symbol token of one
\* position for each of { } ( ) = + , ; and an integer literal spanning a run
\* of digits), and the tokenizer fails only where nothing classifies.
C1_Classification ==
    /\ \A k \in 1..Len(emitted) : Classified(emitted[k].from) = Some(emitted[k])
    /\ (lex_state = "panicked") => (Classified(idx) = None)

(***************************************************************************)
(* Parser (ast.rs)                                                         *)
(*                                                                         *)
(* A parsing function takes the tokens not yet consumed and gives          *)
(* [ok |-> TRUE, val |-> what it parsed, rest |-> the tokens left], or     *)
(* [ok |-> FALSE] when it panics.                                          *)
(***************************************************************************)
\* tokens between the parentheses of the function definition under test
MaxParamTokens == 3

Parsed(val, rest) == [ok |-> TRUE, val |-> val, rest |-> rest]
Panicked == [ok |-> FALSE]

\* Peekable::peek: the kind of the next token, "" at the end
PeekKind(ts) == IF ts = <<>> THEN "" ELSE ts[1].kind

DigitValue(d) ==
    CASE d = "0" -> 0 [] d = "1" -> 1 [] d = "2" -> 2 [] d = "3" -> 3
      [] d = "4" -> 4 [] d = "5" -> 5 [] d = "6" -> 6 [] d = "7" -> 7
      [] d = "8" -> 8 [] d = "9" -> 9

\* str::parse::<u32>: None when the number does not fit in 32 bits
RECURSIVE parse_u32(_, _)
parse_u32(digits, acc) ==
    IF digits = <<>> THEN Some(acc)
    ELSE LET lo == acc.lo * 10 + DigitValue(digits[1])
             hi == acc.hi * 10 + lo \div Half
         IN IF hi >= Half THEN None
            ELSE parse_u32(Tail(digits), [hi |-> hi, lo |-> lo % Half])

\* the element of a one-element set; { F(r) : r \in {e} } names the value of
\* e once, as a `let` of the source does
The(S) == CHOOSE x \in S : TRUE

RECURSIVE parse_expr(_)
RECURSIVE parse_call_args(_, _)

\* ItemStream::parse_call
parse_call(ts) ==
    IF PeekKind(ts) # "LeftParen" THEN Panicked
    ELSE IF PeekKind(Tail(ts)) = "RightParen"
    THEN Parsed(<<>>, Tail(Tail(ts)))
    ELSE parse_call_args(Tail(ts), <<>>)

\* the loop of parse_call
parse_call_args(ts, args) ==
    The({ IF ~e.ok THEN Panicked
          ELSE IF PeekKind(e.rest) = "Comma"
          THEN parse_call_args(Tail(e.rest), Append(args, e.val))
          ELSE IF PeekKind(e.rest) = "RightParen"
          THEN Parsed(Append(args, e.val), Tail(e.rest))
          ELSE Panicked : e \in {parse_expr(ts)} })

\* let lexpr = match self.tokens.next().unwrap() { ... }
parse_lexpr(ts) ==
    IF PeekKind(ts) = "Ident"
    THEN IF PeekKind(Tail(ts)) = "LeftParen"
         THEN The({ IF c.ok THEN Parsed(FuncCall(ts[1].text, c.val), c.rest)
                    ELSE Panicked : c \in {parse_call(Tail(ts))} })
         ELSE Parsed(VarRef(ts[1].text), Tail(ts))
    ELSE IF PeekKind(ts) = "Integer"
    THEN The({ IF i = None THEN Panicked ELSE Parsed(IntLit(i[1]), Tail(ts)) :
               i \in {parse_u32(ts[1].text, U32(0))} })
    ELSE Panicked

\* ItemStream::parse_expr
parse_expr(ts) ==
    The({ IF ~lexpr.ok THEN Panicked
          ELSE IF PeekKind(lexpr.rest) = "Plus"
          THEN The({ IF r.ok THEN Parsed(Add(lexpr.val, r.val), r.rest)
                     ELSE Panicked : r \in {parse_expr(Tail(lexpr.rest))} })
          ELSE lexpr : lexpr \in {parse_lexpr(ts)} })

\* the expression of a statement, then the assert on the semicolon that ends
\* maybe_parse_statement
ExprSemicolon(ts) ==
    The({ IF ~e.ok THEN Panicked
          ELSE IF PeekKind(e.rest) = "Semicolon" THEN Parsed(e.val, Tail(e.rest))
          ELSE Panicked : e \in {parse_expr(ts)} })

\* ItemStream::maybe_parse_statement: val is None or Some(statement)
maybe_parse_statement(ts) ==
    CASE PeekKind(ts) = "Var" ->
            IF PeekKind(Tail(ts)) # "Ident" THEN Panicked
            ELSE IF PeekKind(Tail(Tail(ts))) # "Equals" THEN Panicked
            ELSE The({ IF e.ok
                       THEN Parsed(Some(VarDeclaration(ts[2].text, e.val)), e.rest)
                       ELSE Panicked : e \in {ExprSemicolon(Tail(Tail(Tail(ts))))} })
      [] PeekKind(ts) = "Ident" ->
            IF PeekKind(Tail(ts)) # "Equals" THEN Panicked
            ELSE The({ IF e.ok
                       THEN Parsed(Some(Assignment(ts[1].text, e.val)), e.rest)
                       ELSE Panicked : e \in {ExprSemicolon(Tail(Tail(ts)))} })
      [] PeekKind(ts) = "Return" ->
            The({ IF e.ok THEN Parsed(Some(Return(e.val)), e.rest)
                  ELSE Panicked : e \in {ExprSemicolon(Tail(ts))} })
      [] OTHER -> Parsed(None, ts)

\* while let Some(stmt) = self.maybe_parse_statement() { stmts.push(stmt) }
RECURSIVE parse_statements(_, _)
parse_statements(ts, stmts) ==
    The({ IF ~st.ok THEN Panicked
          ELSE IF st.val = None THEN Parsed(stmts, st.rest)
          ELSE parse_statements(st.rest, Append(stmts, st.val[1])) :
          st \in {maybe_parse_statement(ts)} })

\* ItemStream::parse_block_as_stmt_list, and the same steps inlined in next
\* for a function body
parse_block_as_stmt_list(ts) ==
    IF PeekKind(ts) # "LeftBrace" THEN Panicked
    ELSE The({ IF ~b.ok THEN Panicked
               ELSE IF PeekKind(b.rest) # "RightBrace" THEN Panicked
               ELSE Parsed(b.val, Tail(b.rest)) :
               b \in {parse_statements(Tail(ts), <<>>)} })

\* the loop of ItemStream::next over the parameter names
RECURSIVE parse_arg_names(_, _)
parse_arg_names(ts, arg_names) ==
    CASE PeekKind(ts) = "Ident" ->
            IF Tail(ts) = <<>> THEN Panicked
            ELSE IF PeekKind(Tail(ts)) = "Comma"
            THEN IF PeekKind(Tail(Tail(ts))) = "Ident"
                 THEN parse_arg_names(Tail(Tail(ts)), Append(arg_names, ts[1].text))
                 ELSE Panicked
            ELSE parse_arg_names(Tail(ts), Append(arg_names, ts[1].text))
      [] PeekKind(ts) = "RightParen" -> Parsed(arg_names, Tail(ts))
      [] OTHER -> Panicked

\* ItemStream::next on a token sequence that is not at its end
parse_item(ts) ==
    CASE PeekKind(ts) = "Begin" ->
            The({ IF b.ok THEN Parsed(EntryBlock(b.val), b.rest) ELSE Panicked :
                  b \in {parse_block_as_stmt_list(Tail(ts))} })
      [] PeekKind(ts) = "Func" ->
            IF PeekKind(Tail(ts)) # "Ident" THEN Panicked
            ELSE IF PeekKind(Tail(Tail(ts))) # "LeftParen" THEN Panicked
            ELSE The({ IF ~names.ok THEN Panicked
                       ELSE The({ IF b.ok
                                  THEN Parsed(FuncDef(ts[2].text, names.val, b.val),
                                              b.rest)
                                  ELSE Panicked :
                                  b \in {parse_block_as_stmt_list(names.rest)} }) :
                       names \in {parse_arg_names(Tail(Tail(Tail(ts))), <<>>)} })
      [] OTHER -> Panicked

Parsing == parse_state = "parsing"

\* ---- ItemStream::next, by outcome
NextItem ==
    /\ Parsing
    /\ tokens # <<>>
    /\ \E item \in {parse_item(tokens)} :
           /\ item.ok
           /\ parsed' = Append(parsed, item.val)
           /\ tokens' = item.rest
    /\ UNCHANGED <<parse_state, evalVars, lexVars>>

NextEnd ==
    /\ Parsing
    /\ tokens = <<>>
    /\ parse_state' = "end"
    /\ UNCHANGED <<tokens, parsed, evalVars, lexVars>>

NextPanic ==
    /\ Parsing
    /\ tokens # <<>>
    /\ ~parse_item(tokens).ok
    /\ parse_state' = "panicked"
    /\ UNCHANGED <<tokens, parsed, evalVars, lexVars>>

\* The token sequences the parser is run on: `func f (` , any tokens of a
\* parameter list, the rest of the definition, and what follows it.
ParamTokens ==
    { Ident(<<"a">>), Ident(<<"b">>), Token("Comma"), Token("RightParen"),
      Integer(<<"7">>) }

ParamLists == UNION { [1..n -> ParamTokens] : n \in 0..MaxParamTokens }

\* ) { return a + g(7, b); }      ) { }      { }
Closings ==
    { <<Token("RightParen"), Token("LeftBrace"), Token("Return"),
        Ident(<<"a">>), Token("Plus"), Ident(<<"g">>), Token("LeftParen"),
        Integer(<<"7">>), Token("Comma"), Ident(<<"b">>), Token("RightParen"),
        Token("Semicolon"), Token("RightBrace")>>,
      <<Token("RightParen"), Token("LeftBrace"), Token("RightBrace")>>,
      <<Token("LeftBrace"), Token("RightBrace")>> }

\* nothing      begin { var x = f(); x = 42; }      begin { var x = 4294967296; }
Followers ==
    { <<>>,
      <<Token("Begin"), Token("LeftBrace"), Token("Var"), Ident(<<"x">>),
        Token("Equals"), Ident(<<"f">>), Token("LeftParen"), Token("RightParen"),
        Token("Semicolon"), Ident(<<"x">>), Token("Equals"), Integer(<<"4", "2">>),
        Token("Semicolon"), Token("RightBrace")>>,
      <<Token("Begin"), Token("LeftBrace"), Token("Var"), Ident(<<"x">>),
        Token("Equals"),
        Integer(<<"4", "2", "9", "4", "9", "6", "7", "2", "9", "6">>),
        Token("Semicolon"), Token("RightBrace")>> }

InitParse ==
    /\ \E list \in ParamLists, closing \in Closings, follower \in Followers :
           tokens = <<Token("Func"), Ident(<<"f">>), Token("LeftParen")>>
                        \o list \o closing \o follower
    /\ parsed = <<>>
    /\ parse_state = "parsing"
    /\ EvalIdle
    /\ LexIdle

NextParse ==
    \/ NextItem
    \/ NextEnd
    \/ NextPanic

SpecParse == InitParse /\ [][NextParse]_vars

\* ---- C9 ----------------------------------------------------------------
\* ident ("," ident)* ")" : the tokens after the first parameter
RECURSIVE MoreParams(_)
MoreParams(ts) ==
    \/ PeekKind(ts) = "RightParen"
    \/ /\ PeekKind(ts) = "Comma"
       /\ PeekKind(Tail(ts)) = "Ident"
       /\ MoreParams(Tail(Tail(ts)))

\* param_list? ")"
ParamListGrammar(ts) ==
    \/ PeekKind(ts) = "RightParen"
    \/ PeekKind(ts) = "Ident" /\ MoreParams(Tail(ts))

\* C9: the parser yields a function-definition item only for a parameter
\* list of the form "(" param_list? ")" with
\* param_list := ident ("," ident)*.
C9_Step ==
    (/\ Len(parsed') = Len(parsed) + 1
     /\ parsed'[Len(parsed')].tag = "FuncDef")
        => ParamListGrammar(Tail(Tail(Tail(tokens))))

C9_ParamListGrammar == [][C9_Step]_vars

====
